---------------------------- MODULE Spec2Model ----------------------------
(***************************************************************************)
(* A model of crawler.py: the team-shooting crawler for stats.nba.com.     *)
(*                                                                         *)
(*   generate_links   year range -> ordered mapping season label -> URL    *)
(*   fetch            one PhantomJS session per URL -> page source         *)
(*   scrape_table     page source (+ column names) -> DataFrame            *)
(*   add_two_cols     DataFrame -> DataFrame with Season, Team in front    *)
(*   save_to_sqlite3  add_two_cols, then to_sql(if_exists='replace')       *)
(*   crawler          first pass over all links, one retry pass over the   *)
(*                    links that raised                                    *)
(*                                                                         *)
(* Python strings are TLA+ strings, built with \o where the code formats   *)
(* them.  An OrderedDict is a sequence of [k, v] records in insertion      *)
(* order.  A DataFrame is [index, cols] with cols a sequence of            *)
(* [name, vals] records, vals holding one value per index entry.           *)
(***************************************************************************)
EXTENDS Integers, Sequences, FiniteSets, TLC

VARIABLES
    pc,             \* position of the module-level run / the crawler loops
    start, end,     \* the year range handed to generate_links
    columns,        \* the columns argument of crawler / scrape_table
    urls,           \* the OrderedDict returned by generate_links
    idx,            \* position of the running for loop in its mapping
    missed_links,   \* crawler's OrderedDict of links that raised
    store,          \* the sqlite3 database: table name -> written table
    open_sessions,  \* the PhantomJS sessions created and not closed, each
                    \* named by the number of the iteration that created it
    attempts,       \* history: one entry per loop iteration of crawler
    report,         \* the seasons printed with "Failed twice."
    last,           \* history: the last iteration, its stage and the store before it
    html,           \* scrape_table's page source argument
    table_data,     \* scrape_table's local table_data when its loops are over
    scraped,        \* what scrape_table returned (or that it raised)
    frame,          \* add_two_cols' data argument
    season,         \* add_two_cols' season argument
    shaped          \* what add_two_cols returned

vars == <<pc, start, end, columns, urls, idx, missed_links, store,
          open_sessions, attempts, report, last, html, table_data, scraped,
          frame, season, shaped>>

tableVars == <<html, table_data, scraped, frame, season, shaped>>

-----------------------------------------------------------------------------
(* Bounds of the model.                                                    *)

\* The run draws start and end from FirstYear .. FirstYear + MaxSeasons.
MaxSeasons == 2

\* generate_links alone is explored on FirstYear .. FirstYear + MaxSpan.
MaxSpan == 13

\* A scraped page holds at most MaxCells cells in all, in at most MaxCells - 2 rows.
MaxCells == 4

\* Column lists handed to scrape_table alone have at most MaxCols names.
MaxCols == 3

\* Tables handed to add_two_cols alone: at most MaxFrameCols columns, MaxFrameRows rows.
MaxFrameCols == 3

MaxFrameRows == 2

-----------------------------------------------------------------------------
(* Python values.                                                          *)

\* Python's None (no cell text of the model is this string).
None == "<None>"

\* The missing value pandas pads a short row with.
NaN == "<NaN>"

Min(a, b) == IF a < b THEN a ELSE b

Max(a, b) == IF a > b THEN a ELSE b

Digit(d) == <<"0", "1", "2", "3", "4", "5", "6", "7", "8", "9">>[d + 1]

\* '{}'.format(n) of a non-negative int.
RECURSIVE IntStr(_)
IntStr(n) == IF n < 10 THEN Digit(n) ELSE IntStr(n \div 10) \o Digit(n % 10)

\* Mutant of Format02d: '{}' instead of '{:02d}', no zero padding.
Format02dNoPad(n) == IntStr(n)

\* '{:02d}'.format(n) of a non-negative int: zero-padded to width two.
Format02d(n) == IF n < 10 THEN "0" \o IntStr(n) ELSE IntStr(n)

\* template.format(arg): the template is held as its literal pieces with
\* "{}" for the replacement field; the field is replaced by arg.
RECURSIVE Format(_, _)
Format(template, arg) ==
    IF template = <<>> THEN ""
    ELSE (IF Head(template) = "{}" THEN arg ELSE Head(template))
         \o Format(Tail(template), arg)

\* OrderedDict: od[k] = v keeps the position of an existing key.
Keys(od) == [i \in 1..Len(od) |-> od[i].k]

HasKey(od, k) == \E i \in 1..Len(od) : od[i].k = k

ODSet(od, k, v) ==
    IF HasKey(od, k)
    THEN [i \in 1..Len(od) |-> IF od[i].k = k THEN [k |-> k, v |-> v] ELSE od[i]]
    ELSE Append(od, [k |-> k, v |-> v])

ODGet(od, k) == od[CHOOSE i \in 1..Len(od) : od[i].k = k].v

-----------------------------------------------------------------------------
(* generate_links                                                          *)

\* The module-level url template (line 212), split at its replacement field.
url == <<"http://stats.nba.com/teams/shooting/#!?sort=5-9%20ft.%20FG%20PCT&%5C%20dir=1&Season=",
         "{}",
         "&SeasonType=Regular%20Season&PerMode=Totals">>

\* The start year of the module-level run.
FirstYear == 1997

\* Mutant of date_range_years: year starts (freq='AS') instead of year
\* ends, which takes in 1 January of the end year.
date_range_year_starts(s, e) == [i \in 1..(IF e >= s THEN e - s + 1 ELSE 0) |-> s + i - 1]

\* pd.date_range(start=str(s), end=str(e), freq='A').year: the years whose
\* 31 December lies between 1 January s and 1 January e, ascending.
date_range_years(s, e) == [i \in 1..(IF e > s THEN e - s ELSE 0) |-> s + i - 1]

\* '{}-{}'.format(start, '{:02d}'.format(end % 100))
SeasonLabel(s, e) == IntStr(s) \o "-" \o Format02d(e % 100)

RECURSIVE links_loop(_, _, _, _, _)
links_loop(template, start_dates, end_dates, i, years) ==
    IF i > Min(Len(start_dates), Len(end_dates)) THEN years
    ELSE LET year == SeasonLabel(start_dates[i], end_dates[i])
             link == Format(template, SeasonLabel(start_dates[i], end_dates[i]))
         IN  links_loop(template, start_dates, end_dates, i + 1,
                        ODSet(years, year, link))

generate_links(template, s, e) ==
    links_loop(template, date_range_years(s, e), date_range_years(s + 1, e + 1),
               1, <<>>)

-----------------------------------------------------------------------------
(* Values passed between scrape_table, add_two_cols and to_sql: a          *)
(* DataFrame, a bs4 Tag (a td cell), or the fact that the call raised.     *)

NoFrame == [index |-> <<>>, cols |-> <<>>]

NoTag == [cls |-> None, text |-> ""]

Raise(exc) == [kind |-> "raise", exc |-> exc, frame |-> NoFrame, tag |-> NoTag]

FrameValue(f) == [kind |-> "frame", exc |-> "", frame |-> f, tag |-> NoTag]

TagValue(t) == [kind |-> "tag", exc |-> "", frame |-> NoFrame, tag |-> t]

\* No call has been made yet.
NoValue == Raise("")

\* columns=None, the default of scrape_table and crawler.
ColumnsNone == <<None>>

Names(f) == [j \in 1..Len(f.cols) |-> f.cols[j].name]

-----------------------------------------------------------------------------
(* scrape_table                                                            *)
(*                                                                         *)
(* html is the sequence of div.nba-stat-table containers of the page, a    *)
(* container the sequence of its tbody sections, a tbody the sequence of   *)
(* its tr rows, a row the sequence of its td cells [cls, text]; cls is     *)
(* the cell's first class, None for a cell without a class attribute.      *)
(* A deque is an object: heap[r] is the deque made for row r, and          *)
(* table_data maps a team to the number of a deque.                        *)

\* Mutant of cells_loop: the label cell's text is appended to the values too.
RECURSIVE cells_loop_keeps_label(_, _, _, _)
cells_loop_keeps_label(cells, i, r, st) ==
    IF i > Len(cells) \/ ~st.ok THEN st
    ELSE LET data == cells[i] IN
         IF data.cls = None
         THEN [st EXCEPT !.ok = FALSE, !.bound = TRUE, !.data = data]
         ELSE LET team == IF data.cls = "first" THEN data.text ELSE st.team
                  heap == [st.heap EXCEPT ![r] = Append(@, data.text)]
              IN  cells_loop_keeps_label(cells, i + 1, r,
                             [ok |-> TRUE, team |-> team, heap |-> heap,
                              table_data |-> ODSet(st.table_data, team, r),
                              bound |-> TRUE, data |-> data])

\* Lines 71-79: the cells of row r.  data['class'] of a cell without a
\* class attribute raises KeyError.
RECURSIVE cells_loop(_, _, _, _)
cells_loop(cells, i, r, st) ==
    IF i > Len(cells) \/ ~st.ok THEN st
    ELSE LET data == cells[i] IN
         IF data.cls = None
         THEN [st EXCEPT !.ok = FALSE, !.bound = TRUE, !.data = data]
         ELSE LET team == IF data.cls = "first" THEN data.text ELSE st.team
                  heap == IF data.cls = "first" THEN st.heap
                          ELSE [st.heap EXCEPT ![r] = Append(@, data.text)]
              IN  cells_loop(cells, i + 1, r,
                             [ok |-> TRUE, team |-> team, heap |-> heap,
                              table_data |-> ODSet(st.table_data, team, r),
                              bound |-> TRUE, data |-> data])

\* Lines 67-79: the rows of the first tbody; each row starts with
\* team = None and a new deque.
RECURSIVE rows_loop(_, _, _)
rows_loop(rows, r, st) ==
    IF r > Len(rows) \/ ~st.ok THEN st
    ELSE rows_loop(rows, r + 1,
                   cells_loop(rows[r], 1, r,
                              [st EXCEPT !.team = None,
                                         !.heap = Append(st.heap, <<>>)]))

\* Lines 61-79: table_data after the loops, each deque read through its
\* reference.  [0] of an empty find_all raises IndexError.
table_data_of(page) ==
    IF Len(page) = 0 \/ Len(page[1]) = 0
    THEN [ok |-> FALSE, exc |-> "IndexError", table_data |-> <<>>,
          bound |-> FALSE, data |-> NoTag]
    ELSE LET st == rows_loop(page[1][1], 1,
                             [ok |-> TRUE, team |-> None, heap |-> <<>>,
                              table_data |-> <<>>, bound |-> FALSE,
                              data |-> NoTag])
         IN  [ok |-> st.ok, exc |-> IF st.ok THEN "" ELSE "KeyError",
              table_data |-> [i \in 1..Len(st.table_data) |->
                                 [k |-> st.table_data[i].k,
                                  v |-> st.heap[st.table_data[i].v]]],
              bound |-> st.bound, data |-> st.data]

RECURSIVE MaxLen(_)
MaxLen(td) == IF td = <<>> THEN 0 ELSE Max(Len(Head(td).v), MaxLen(Tail(td)))

\* pd.DataFrame.from_dict(table_data, orient='index'): one row per key,
\* as many columns as the longest deque, short rows padded, columns
\* labelled 0, 1, ...
from_dict(td) ==
    [index |-> Keys(td),
     cols  |-> [j \in 1..MaxLen(td) |->
                   [name |-> IntStr(j - 1),
                    vals |-> [i \in 1..Len(td) |->
                                 IF j <= Len(td[i].v) THEN td[i].v[j] ELSE NaN]]]]

\* Mutant of set_columns: the names are fitted to the frame, surplus
\* columns dropped and missing ones filled with the missing value.
set_columns_fitting(f, names) ==
    FrameValue([index |-> f.index,
                cols  |-> [j \in 1..Len(names) |->
                              [name |-> names[j],
                               vals |-> IF j <= Len(f.cols) THEN f.cols[j].vals
                                        ELSE [i \in 1..Len(f.index) |-> NaN]]]])

\* data.columns = columns: ValueError unless the lengths agree.
set_columns(f, names) ==
    IF Len(names) # Len(f.cols) THEN Raise("ValueError")
    ELSE FrameValue([index |-> f.index,
                     cols  |-> [j \in 1..Len(f.cols) |->
                                   [name |-> names[j], vals |-> f.cols[j].vals]]])

\* Lines 81-85.  With columns=None, data is still the inner loop's
\* variable: the last cell visited, or unbound.
scrape_return(t, cols) ==
    IF ~t.ok THEN Raise(t.exc)
    ELSE IF cols # ColumnsNone THEN set_columns(from_dict(t.table_data), cols)
    ELSE IF t.bound THEN TagValue(t.data)
    ELSE Raise("UnboundLocalError")

scrape_table(page, cols) == scrape_return(table_data_of(page), cols)

-----------------------------------------------------------------------------
(* add_two_cols                                                            *)

\* data[name] = vals: an existing label is overwritten where it stands
\* (every column carrying it), a new one is appended.
SetItem(f, name, vals) ==
    IF \E j \in 1..Len(f.cols) : f.cols[j].name = name
    THEN [f EXCEPT !.cols = [j \in 1..Len(f.cols) |->
                                IF f.cols[j].name = name
                                THEN [name |-> name, vals |-> vals]
                                ELSE f.cols[j]]]
    ELSE [f EXCEPT !.cols = Append(f.cols, [name |-> name, vals |-> vals])]

\* The columns of f labelled name, in their order.
RECURSIVE ColumnsNamed(_, _)
ColumnsNamed(cs, name) ==
    IF cs = <<>> THEN <<>>
    ELSE (IF Head(cs).name = name THEN <<Head(cs)>> ELSE <<>>)
         \o ColumnsNamed(Tail(cs), name)

\* data[cols]: for each label of the list in turn, the columns carrying it.
RECURSIVE GetItems(_, _)
GetItems(cs, labels) ==
    IF labels = <<>> THEN <<>>
    ELSE ColumnsNamed(cs, Head(labels)) \o GetItems(cs, Tail(labels))

\* Mutant of LastTwoFirst: the column list is left in its order.
LastTwoLeft(cols) == cols

\* cols[-2:] + cols[:-2]
LastTwoFirst(cols) ==
    SubSeq(cols, Max(1, Len(cols) - 1), Len(cols)) \o SubSeq(cols, 1, Len(cols) - 2)

\* Lines 106-114.  A Tag has no columns: data.columns is None and
\* .tolist() raises AttributeError.
add_two_cols(data, label) ==
    IF data.kind # "frame" THEN Raise("AttributeError")
    ELSE LET d1 == SetItem(data.frame, "Season",
                           [i \in 1..Len(data.frame.index) |-> label])
             d2 == SetItem(d1, "Team", d1.index)
         IN  FrameValue([index |-> d2.index,
                         cols  |-> GetItems(d2.cols, LastTwoFirst(Names(d2)))])

-----------------------------------------------------------------------------
(* The module-level configuration and the pages the site can answer with.  *)

\* Lines 215-220.
columns18 == <<"<5 FGM", "<5 FGA", "<5 FG%",
               "5-9 FGM", "5-9 FGA", "5-9 FG%",
               "10-14 FGM", "10-14 FGA", "10-14 FG%",
               "15-19 FGM", "15-19 FGA", "15-19 FG%",
               "20-24 FGM", "20-24 FGA", "20-24 FG%",
               "25-29 FGM", "25-29 FGA", "25-29 FG %">>

Cell(cls, text) == [cls |-> cls, text |-> text]

\* A row of the rendered table: the team cell, then n value cells.
StatRow(team, tag, n) ==
    <<Cell("first", team)>> \o [j \in 1..n |-> Cell("stat", tag \o IntStr(j))]

\* A rendered page: one container, one tbody, two teams, n values each.
StatPage(tag, n) ==
    << << <<StatRow("Lakers", tag \o "L", n), StatRow("Celtics", tag \o "C", n)>> >> >>

\* What driver.page_source can hold: the table as rendered on two different
\* days, a page whose table has not been rendered, a table one column short.
FetchablePages ==
    {StatPage("a", Len(columns18)), StatPage("b", Len(columns18)),
     <<>>, StatPage("a", Len(columns18) - 1)}

\* Where an iteration can raise for reasons outside the program: the
\* PhantomJS constructor, driver.get, driver.page_source, driver.close,
\* sqlite3.connect, DataFrame.to_sql.
Faults == {"none", "driver", "get", "page_source", "close", "connect", "to_sql"}

\* What a to_sql that raised has done to the destination table: nothing,
\* dropped it (if_exists='replace'), or re-created it without rows.
Partials == {"untouched", "dropped", "empty"}

\* What the world does to one iteration: where it makes it raise, the page
\* the session renders when fetch gets that far, and what a to_sql that
\* raised leaves behind.
Envs ==
    [fault : {"driver", "get", "page_source", "close"}, page : {<<>>},
     partial : {"untouched"}]
    \cup [fault : {"none", "connect"}, page : FetchablePages, partial : {"untouched"}]
    \cup [fault : {"to_sql"}, page : FetchablePages, partial : Partials]

-----------------------------------------------------------------------------
(* fetch, save_to_sqlite3 and one iteration of crawler's loops             *)

\* Lines 155-160.  The session is created by the constructor and closed
\* by driver.close(), which is reached only when nothing before it raised.
fetch(link, env, n, open) ==
    IF env.fault = "driver"
    THEN [stage |-> "driver", page_source |-> <<>>, open_sessions |-> open]
    ELSE IF env.fault \in {"get", "page_source", "close"}
    THEN [stage |-> env.fault, page_source |-> <<>>,
          open_sessions |-> open \cup {n}]
    ELSE [stage |-> "ok", page_source |-> env.page, open_sessions |-> open]

ODRemove(od, k) == SelectSeq(od, LAMBDA e : e.k # k)

\* Lines 137-139.  to_sql(index=False, if_exists='replace') writes the
\* columns of the frame, without its index, over any table of that name.
to_sql(shapedData, db, table_name, env) ==
    IF shapedData.kind # "frame" THEN [stage |-> "shape", db |-> db]
    ELSE IF env.fault = "connect" THEN [stage |-> "connect", db |-> db]
    ELSE IF env.fault = "to_sql"
    THEN [stage |-> "to_sql",
          db |-> CASE env.partial = "untouched" -> db
                   [] env.partial = "dropped" -> ODRemove(db, table_name)
                   [] OTHER -> ODSet(db, table_name,
                                     [j \in 1..Len(shapedData.frame.cols) |->
                                         [name |-> shapedData.frame.cols[j].name,
                                          vals |-> <<>>]])]
    ELSE [stage |-> "ok", db |-> ODSet(db, table_name, shapedData.frame.cols)]

\* Lines 135-139: add_two_cols first; when it raises nothing is written.
save_to_sqlite3(data, db, table_name, label, env) ==
    to_sql(add_two_cols(data, label), db, table_name, env)

\* Mutant of table_name_of: one table name for every season.
table_name_fixed(label) == "totals"

\* Mutant of after_scrape: a scrape_table that raised still leaves an
\* (empty) destination table behind.
after_scrape_placeholder(data, f, label, env, db) ==
    IF data.kind = "raise"
    THEN [stage |-> "scrape", db |-> ODSet(db, label \o "_totals", <<>>),
          open_sessions |-> f.open_sessions]
    ELSE [stage |-> save_to_sqlite3(data, db, label \o "_totals", label, env).stage,
          db |-> save_to_sqlite3(data, db, label \o "_totals", label, env).db,
          open_sessions |-> f.open_sessions]

\* '{}_totals'.format(season), lines 188 and 205.
table_name_of(label) == label \o "_totals"

\* The body of the try blocks, lines 185-190 and 202-207: the stage that
\* raised ("ok" when none did) and what the iteration left behind.
after_scrape(data, f, label, env, db) ==
    IF data.kind = "raise"
    THEN [stage |-> "scrape", db |-> db, open_sessions |-> f.open_sessions]
    ELSE [stage |-> save_to_sqlite3(data, db, table_name_of(label), label, env).stage,
          db |-> save_to_sqlite3(data, db, table_name_of(label), label, env).db,
          open_sessions |-> f.open_sessions]

after_fetch(f, label, cols, env, db) ==
    IF f.stage # "ok"
    THEN [stage |-> f.stage, db |-> db, open_sessions |-> f.open_sessions]
    ELSE after_scrape(scrape_table(f.page_source, cols), f, label, env, db)

try_season(label, link, cols, env, db, n, open) ==
    after_fetch(fetch(link, env, n, open), label, cols, env, db)

-----------------------------------------------------------------------------
(* The run: lines 222-223, and crawler's two loops.                        *)

RunYears == FirstYear .. FirstYear + MaxSeasons

NoLast == [label |-> "", pass |-> 0, stage |-> "", page |-> <<>>, before |-> <<>>]

IdleTable ==
    /\ html = <<>>
    /\ table_data = <<>>
    /\ scraped = NoValue
    /\ frame = NoFrame
    /\ season = ""
    /\ shaped = NoValue

IdleRun ==
    /\ start = FirstYear
    /\ end = FirstYear
    /\ urls = <<>>
    /\ idx = 0
    /\ missed_links = <<>>
    /\ store = <<>>
    /\ open_sessions = {}
    /\ attempts = <<>>
    /\ report = <<>>
    /\ last = NoLast

Init ==
    /\ pc = "init"
    /\ start \in RunYears
    /\ end \in RunYears
    /\ columns \in {ColumnsNone, columns18}
    /\ urls = <<>>
    /\ idx = 0
    /\ missed_links = <<>>
    /\ store = <<>>
    /\ open_sessions = {}
    /\ attempts = <<>>
    /\ report = <<>>
    /\ last = NoLast
    /\ IdleTable

\* Line 222, and the entry of crawler (line 177).
GenerateLinks ==
    /\ pc = "init"
    /\ urls' = generate_links(url, start, end)
    /\ pc' = "first"
    /\ idx' = 1
    /\ missed_links' = <<>>
    /\ UNCHANGED <<start, end, columns, store, open_sessions, attempts,
                   report, last>>
    /\ UNCHANGED tableVars

\* Mutant of next_index: an iteration that raised ends the loop.
next_index_break(i, mapping, stage) ==
    IF stage # "ok" THEN Len(mapping) + 1 ELSE i + 1

\* The for loops (lines 179, 198) go on to the next item whether or not
\* the iteration raised: the except clauses neither break nor re-raise.
next_index(i, mapping, stage) == i + 1

\* One iteration of a loop over mapping, with its try/except.
Iteration(pass, mapping) ==
    /\ idx <= Len(mapping)
    /\ \E env \in Envs :
         \E a \in {try_season(mapping[idx].k, mapping[idx].v, columns, env,
                               store, Len(attempts) + 1, open_sessions)} :
             /\ store' = a.db
             /\ open_sessions' = a.open_sessions
             /\ missed_links' = IF pass = 1 /\ a.stage # "ok"
                                THEN ODSet(missed_links, mapping[idx].k, mapping[idx].v)
                                ELSE missed_links
             /\ report' = IF pass = 2 /\ a.stage # "ok"
                          THEN Append(report, mapping[idx].k)
                          ELSE report
             /\ attempts' = Append(attempts, [label |-> mapping[idx].k,
                                              pass |-> pass, ok |-> a.stage = "ok",
                                              page |-> IF a.stage = "ok"
                                                       THEN env.page ELSE <<>>])
             /\ last' = [label |-> mapping[idx].k, pass |-> pass,
                         stage |-> a.stage,
                         page |-> IF a.stage = "ok" THEN env.page ELSE <<>>,
                         before |-> store]
             /\ idx' = next_index(idx, mapping, a.stage)
    /\ UNCHANGED <<pc, start, end, columns, urls>>
    /\ UNCHANGED tableVars

\* Lines 179-194.
FirstPass ==
    /\ pc = "first"
    /\ Iteration(1, urls)

\* Line 197: the first loop is over; the second runs if anything was missed.
FirstPassDone ==
    /\ pc = "first"
    /\ idx > Len(urls)
    /\ pc' = IF missed_links # <<>> THEN "second" ELSE "done"
    /\ idx' = 1
    /\ UNCHANGED <<start, end, columns, urls, missed_links, store,
                   open_sessions, attempts, report, last>>
    /\ UNCHANGED tableVars

\* Mutant of SecondPass: the retry loop runs over all links.
SecondPassAllLinks ==
    /\ pc = "second"
    /\ Iteration(2, urls)

\* Lines 198-210.
SecondPass ==
    /\ pc = "second"
    /\ Iteration(2, missed_links)

SecondPassDone ==
    /\ pc = "second"
    /\ idx > Len(missed_links)
    /\ pc' = "done"
    /\ UNCHANGED <<start, end, columns, urls, idx, missed_links, store,
                   open_sessions, attempts, report, last>>
    /\ UNCHANGED tableVars

Next ==
    \/ GenerateLinks
    \/ FirstPass
    \/ FirstPassDone
    \/ SecondPass
    \/ SecondPassDone

Spec == Init /\ [][Next]_vars

-----------------------------------------------------------------------------
(* generate_links on its own, over a range of years that crosses 2000.     *)

LinkYears == FirstYear .. FirstYear + MaxSpan

InitLinks ==
    /\ pc = "init"
    /\ start \in LinkYears
    /\ end \in LinkYears
    /\ columns = columns18
    /\ urls = <<>>
    /\ idx = 0
    /\ missed_links = <<>>
    /\ store = <<>>
    /\ open_sessions = {}
    /\ attempts = <<>>
    /\ report = <<>>
    /\ last = NoLast
    /\ IdleTable

NextLinks == GenerateLinks

SpecLinks == InitLinks /\ [][NextLinks]_vars

-----------------------------------------------------------------------------
(* scrape_table on its own, over small pages of every shape.               *)

MaxRows == MaxCells - 2

\* The kinds of cell a page is made of: the label cell of either team, a
\* value cell, a cell without a class attribute.
CellKinds == {"Lakers", "Celtics", "value", "classless"}

KindRows(n) == UNION {[1..k -> CellKinds] : k \in 0..n}

\* The pages of at most r rows holding at most c cells in all.
RECURSIVE KindPages(_, _)
KindPages(r, c) ==
    IF r = 0 THEN {<<>>}
    ELSE {<<>>} \cup
         UNION {{<<row>> \o p : p \in KindPages(r - 1, c - Len(row))} :
                   row \in KindRows(c)}

\* The cell of a kind at position c of row r; a value's text names its place.
CellOf(kind, r, c) ==
    CASE kind = "value" -> Cell("stat", "v" \o IntStr(r) \o IntStr(c))
      [] kind = "classless" -> Cell(None, "x" \o IntStr(r) \o IntStr(c))
      [] OTHER -> Cell("first", kind)

RowsOf(kp) == [r \in 1..Len(kp) |-> [c \in 1..Len(kp[r]) |-> CellOf(kp[r][c], r, c)]]

\* Rows that scrape_table must not look at: a later tbody, a later container.
DecoyRows == <<StatRow("Decoy", "d", 1)>>

Htmls ==
    {<<>>, << <<>> >>}
    \cup {<< <<RowsOf(kp)>> >> : kp \in KindPages(MaxRows, MaxCells)}
    \cup {<< <<RowsOf(kp), DecoyRows>>, <<DecoyRows>> >> : kp \in KindPages(1, 2)}

ColumnLists ==
    {ColumnsNone} \cup {[j \in 1..k |-> "c" \o IntStr(j)] : k \in 0..MaxCols}

InitScrape ==
    /\ IdleRun
    /\ pc = "scrape"
    /\ html \in Htmls
    /\ columns \in ColumnLists
    /\ table_data = <<>>
    /\ scraped = NoValue
    /\ frame = NoFrame
    /\ season = ""
    /\ shaped = NoValue

\* A call scrape_table(html, columns=columns).
Scrape ==
    /\ pc = "scrape"
    /\ table_data' = table_data_of(html).table_data
    /\ scraped' = scrape_table(html, columns)
    /\ pc' = "scraped"
    /\ UNCHANGED <<start, end, columns, urls, idx, missed_links, store,
                   open_sessions, attempts, report, last, html, frame, season,
                   shaped>>

NextScrape == Scrape

SpecScrape == InitScrape /\ [][NextScrape]_vars

-----------------------------------------------------------------------------
(* add_two_cols on its own, over small tables with any column names.       *)

FrameNames == {"FGM", "FGA", "Season", "Team"}

SeqsUpTo(S, n) == UNION {[1..k -> S] : k \in 0..n}

\* The table with these column names and this index; every value names
\* its row and its column.
FrameOf(names, index) ==
    [index |-> index,
     cols  |-> [j \in 1..Len(names) |->
                   [name |-> names[j],
                    vals |-> [i \in 1..Len(index) |-> "v" \o IntStr(i) \o IntStr(j)]]]]

Frames ==
    {FrameOf(names, index) : names \in SeqsUpTo(FrameNames, MaxFrameCols),
                             index \in SeqsUpTo({"Lakers", "Celtics"}, MaxFrameRows)}

InitShape ==
    /\ IdleRun
    /\ pc = "shape"
    /\ columns = columns18
    /\ html = <<>>
    /\ table_data = <<>>
    /\ scraped = NoValue
    /\ frame \in Frames
    /\ season \in {"1997-98", "1999-00"}
    /\ shaped = NoValue

\* A call add_two_cols(frame, season).
Shape ==
    /\ pc = "shape"
    /\ shaped' = add_two_cols(FrameValue(frame), season)
    /\ pc' = "shaped"
    /\ UNCHANGED <<start, end, columns, urls, idx, missed_links, store,
                   open_sessions, attempts, report, last, html, table_data,
                   scraped, frame, season>>

NextShape == Shape

SpecShape == InitShape /\ [][NextShape]_vars

-----------------------------------------------------------------------------
(* Properties of the run.                                                  *)

FirstAttempts == SelectSeq(attempts, LAMBDA a : a.pass = 1)

SecondAttempts == SelectSeq(attempts, LAMBDA a : a.pass = 2)

Failed(as) == SelectSeq(as, LAMBDA a : ~a.ok)

Labels(as) == [i \in 1..Len(as) |-> as[i].label]

IsPrefix(a, b) == Len(a) <= Len(b) /\ a = SubSeq(b, 1, Len(a))

Times(label) == Cardinality({i \in 1..Len(attempts) : attempts[i].label = label})

\* C1: the first pass attempts every season of the mapping exactly once, in
\* the mapping's order; an iteration that raised (at fetch, scrape, shape or
\* persist) records its season and URL in missed_links and the loop goes on
\* to the next season, so once the first pass is over every season has been
\* attempted.
C1_FirstPassCoversAll ==
    /\ IsPrefix(Labels(FirstAttempts), Keys(urls))
    /\ pc = "first" => Len(FirstAttempts) = idx - 1
    /\ pc \in {"second", "done"} => Labels(FirstAttempts) = Keys(urls)
    /\ Keys(missed_links) = Labels(Failed(FirstAttempts))
    /\ \A i \in 1..Len(missed_links) :
          /\ HasKey(urls, missed_links[i].k)
          /\ missed_links[i].v = ODGet(urls, missed_links[i].k)

\* C1 witness: a run is over in which the first season's first attempt
\* raised and a later season was attempted all the same.
C1_Witness ==
    /\ pc = "done"
    /\ Len(FirstAttempts) >= 2
    /\ ~FirstAttempts[1].ok
    /\ Len(FirstAttempts) = Len(urls)

\* C2: the second pass starts only after the first pass has attempted every
\* season, attempts exactly the seasons that failed in the first pass, each
\* once and in order, and nothing is attempted a third time; a season that
\* succeeded in the first pass is attempted once only.
C2_SingleRetryPass ==
    /\ attempts = FirstAttempts \o SecondAttempts
    /\ SecondAttempts # <<>> => Labels(FirstAttempts) = Keys(urls)
    /\ IsPrefix(Labels(SecondAttempts), Labels(Failed(FirstAttempts)))
    /\ pc = "done" => Labels(SecondAttempts) = Labels(Failed(FirstAttempts))
    /\ \A i \in 1..Len(attempts) :
          /\ Times(attempts[i].label) <= 2
          /\ (attempts[i].pass = 1 /\ attempts[i].ok) => Times(attempts[i].label) = 1

\* C2 witness: a finished run with a season that was retried and a season
\* that was not.
C2_Witness ==
    /\ pc = "done"
    /\ Len(SecondAttempts) >= 1
    /\ Len(SecondAttempts) < Len(FirstAttempts)

\* C3: an iteration that raised in fetch, in scrape_table or in add_two_cols
\* leaves the store as it was; the store changes only in an iteration that
\* reached to_sql.
C3_NoWriteBeforePersist ==
    /\ last.stage \in {"driver", "get", "page_source", "close", "scrape", "shape"}
          => store = last.before
    /\ store # last.before => last.stage \in {"ok", "to_sql"}

\* C3 witness: scrape_table raised while the store already held a table.
C3_Witness ==
    /\ last.stage = "scrape"
    /\ store # <<>>

\* C3 witness of the shaping case: add_two_cols raised.
C3_WitnessShape == last.stage = "shape"

\* C4 (as claimed): between iterations no session is open: every session
\* fetch created has been closed, on the failure path too.
C4_SessionsReleased == open_sessions = {}

\* The table the run must hold for a season whose page was StatPage: Season,
\* Team, then the eighteen configured columns with the cells' texts.
ExpectedTable(page, label) ==
    <<[name |-> "Season", vals |-> <<label, label>>],
      [name |-> "Team", vals |-> <<"Lakers", "Celtics">>]>>
    \o [j \in 1..Len(columns18) |->
           [name |-> columns18[j],
            vals |-> <<page[1][1][1][j + 1].text, page[1][1][2][j + 1].text>>]]

\* C5: when the run is over, a season that failed in the first pass and
\* succeeded in the retry is in the store under "<season>_totals" with the
\* data of the retry's page, and is not in the "Failed twice" report; the
\* report lists exactly the seasons that failed in both passes.
C5_RetrySuccessStored ==
    pc = "done" =>
        /\ \A j \in 1..Len(attempts) :
              (attempts[j].pass = 2 /\ attempts[j].ok) =>
                  /\ HasKey(store, attempts[j].label \o "_totals")
                  /\ ODGet(store, attempts[j].label \o "_totals")
                        = ExpectedTable(attempts[j].page, attempts[j].label)
                  /\ \A i \in 1..Len(report) : report[i] # attempts[j].label
        /\ report = Labels(Failed(SecondAttempts))

\* C5 witness: the run is over, a first-pass fetch raised after its session
\* was created (the session is still open), and the retry succeeded.
C5_Witness ==
    /\ pc = "done"
    /\ \E i, j \in 1..Len(attempts) :
          /\ attempts[i].pass = 1 /\ ~attempts[i].ok /\ i \in open_sessions
          /\ attempts[j].pass = 2 /\ attempts[j].ok
          /\ attempts[j].label = attempts[i].label

\* C6: for start < end, generate_links returns end - start entries, the
\* i-th for year y = start + i - 1, keyed "y-dd" with dd the two digits of
\* (y + 1) mod 100, its value the template with that key in the replacement
\* field; the keys are pairwise distinct.
C6_LinksPerYear ==
    (pc # "init" /\ start < end) =>
        /\ Len(urls) = end - start
        /\ \A i \in 1..Len(urls) :
              LET y == start + i - 1 IN
              /\ urls[i].k = IntStr(y) \o "-" \o Digit(((y + 1) \div 10) % 10)
                                              \o Digit((y + 1) % 10)
              /\ urls[i].v = url[1] \o urls[i].k \o url[3]
              /\ y = 1997 => urls[i].k = "1997-98"
              /\ y = 1999 => urls[i].k = "1999-00"
              /\ y = 2009 => urls[i].k = "2009-10"
        /\ \A i, j \in 1..Len(urls) : i # j => urls[i].k # urls[j].k

\* C6 witness: generate_links(url, 1997, 2000) has run.
C6_Witness ==
    /\ pc # "init"
    /\ start = 1997
    /\ end = 2000
    /\ Keys(urls) = <<"1997-98", "1998-99", "1999-00">>

\* C7 (as claimed): a run with start >= end never gets past link
\* generation into crawler.
C7_InvalidRangeAborts == start >= end => pc = "init"

\* C7 (amended): with start >= end, generate_links returns an empty
\* mapping without raising, and crawler runs to its end over it without an
\* iteration: nothing is fetched and nothing is written.
C7_InvalidRangeIsEmptyRun ==
    start >= end =>
        /\ urls = <<>>
        /\ attempts = <<>>
        /\ store = <<>>
        /\ open_sessions = {}
        /\ pc \in {"init", "first", "done"}

\* C7 witness: crawler has finished a run whose range is reversed.
C7_Witness ==
    /\ start > end
    /\ pc = "done"

-----------------------------------------------------------------------------
(* Properties of scrape_table.                                             *)

\* The rows scrape_table reads: those of the first tbody of the first container.
FirstBodyRows == html[1][1]

HasFirstBody == Len(html) > 0 /\ Len(html[1]) > 0

IsLabel(cell) == cell.cls = "first"

\* The texts of a row's cells other than label cells, in document order.
RowValues(row) ==
    LET others == SelectSeq(row, LAMBDA cell : ~IsLabel(cell))
    IN  [c \in 1..Len(others) |-> others[c].text]

HasLabel(row) == \E c \in 1..Len(row) : IsLabel(row[c])

\* The text of a row's (first) label cell.
RowLabel(row) == row[CHOOSE c \in 1..Len(row) :
                        IsLabel(row[c]) /\ \A b \in 1..(c - 1) : ~IsLabel(row[b])].text

\* The identifiers of the rows, in document order, each at its first place.
RECURSIVE RowLabels(_)
RowLabels(rows) ==
    IF rows = <<>> THEN <<>>
    ELSE LET before == RowLabels(SubSeq(rows, 1, Len(rows) - 1))
             row    == rows[Len(rows)]
         IN  IF HasLabel(row) /\ \A i \in 1..Len(before) : before[i] # RowLabel(row)
             THEN Append(before, RowLabel(row))
             ELSE before

\* The loops ran through every row; every row identifier is associated
\* with the other cells of the last row carrying it, and the mapping holds
\* the row identifiers and nothing else.
OneEntryPerRow ==
    /\ scraped.exc # "KeyError"
    /\ Keys(table_data) = RowLabels(FirstBodyRows)
    /\ \A r \in 1..Len(FirstBodyRows) :
          (/\ HasLabel(FirstBodyRows[r])
           /\ \A q \in (r + 1)..Len(FirstBodyRows) :
                 HasLabel(FirstBodyRows[q]) =>
                     RowLabel(FirstBodyRows[q]) # RowLabel(FirstBodyRows[r]))
          => /\ HasKey(table_data, RowLabel(FirstBodyRows[r]))
             /\ ODGet(table_data, RowLabel(FirstBodyRows[r]))
                   = RowValues(FirstBodyRows[r])

\* Every cell has a class attribute and every row with cells is one label
\* cell followed by value cells.
LabelFirstRows ==
    \A r \in 1..Len(FirstBodyRows) :
        /\ \A c \in 1..Len(FirstBodyRows[r]) : FirstBodyRows[r][c].cls # None
        /\ Len(FirstBodyRows[r]) > 0 => IsLabel(FirstBodyRows[r][1])
        /\ \A c \in 2..Len(FirstBodyRows[r]) : ~IsLabel(FirstBodyRows[r][c])

\* C8: with a column list, scrape_table raises whenever the length of the
\* list differs from the number of value columns scraped (the length of the
\* longest value sequence of table_data); when it returns, it returns a
\* table with exactly the listed columns in which every scraped value
\* stands in its place and nothing was cut off (a sequence shorter than the
\* longest is filled up with the missing value).
C8_ColumnCountMustMatch ==
    (pc = "scraped" /\ columns # ColumnsNone) =>
        /\ scraped.kind # "tag"
        /\ Len(columns) # MaxLen(table_data) => scraped.kind = "raise"
        /\ scraped.kind = "frame" =>
              /\ Names(scraped.frame) = columns
              /\ scraped.frame.index = Keys(table_data)
              /\ \A i \in 1..Len(table_data) :
                    /\ Len(table_data[i].v) <= Len(columns)
                    /\ \A j \in 1..Len(columns) :
                          /\ Len(scraped.frame.cols[j].vals) = Len(table_data)
                          /\ scraped.frame.cols[j].vals[i]
                                = IF j <= Len(table_data[i].v)
                                  THEN table_data[i].v[j] ELSE NaN

\* C8 witness: the loops scraped rows with values, the column list has
\* another length, and scrape_table raised.
C8_Witness ==
    /\ pc = "scraped"
    /\ columns # ColumnsNone
    /\ MaxLen(table_data) > 0
    /\ Len(columns) > 0
    /\ Len(columns) # MaxLen(table_data)
    /\ scraped.kind = "raise"

\* C8 witness of the matching case: a table with the listed columns came back.
C8_WitnessMatch ==
    /\ pc = "scraped"
    /\ columns # ColumnsNone
    /\ Len(columns) = 2
    /\ scraped.kind = "frame"

\* C9 (as claimed): for every page with a first tbody, table_data holds
\* one entry per row identifier, in document order, each associated with
\* the texts of the other cells of the (last) row carrying it.
C9_OneEntryPerRow ==
    (pc = "scraped" /\ HasFirstBody) => OneEntryPerRow

\* C9 (amended): the same, for pages in which every cell has a class
\* attribute and every row with cells is its label cell followed by value
\* cells.
C9_OneEntryPerLabelFirstRow ==
    (pc = "scraped" /\ HasFirstBody /\ LabelFirstRows) => OneEntryPerRow

\* C9 witness: a page of two rows carrying the same identifier, the first
\* with a value, both label first.
C9_Witness ==
    /\ pc = "scraped"
    /\ HasFirstBody
    /\ LabelFirstRows
    /\ Len(FirstBodyRows) = 2
    /\ Len(FirstBodyRows[1]) = 2
    /\ Len(FirstBodyRows[2]) = 2
    /\ RowLabel(FirstBodyRows[1]) = RowLabel(FirstBodyRows[2])
    /\ Len(table_data) = 1

-----------------------------------------------------------------------------
(* Properties of add_two_cols.                                             *)

\* The result is Season, Team and then the input's columns as they were,
\* Season holding the season and Team the index in every row.
SeasonTeamThenInput ==
    /\ shaped.kind = "frame"
    /\ shaped.frame.index = frame.index
    /\ Names(shaped.frame) = <<"Season", "Team">> \o Names(frame)
    /\ Len(shaped.frame.cols) = Len(frame.cols) + 2
    /\ shaped.frame.cols[1].vals = [i \in 1..Len(frame.index) |-> season]
    /\ shaped.frame.cols[2].vals = frame.index
    /\ \A j \in 1..Len(frame.cols) : shaped.frame.cols[j + 2] = frame.cols[j]

\* The input's column names are pairwise distinct, none Season or Team.
FreshDistinctNames ==
    /\ \A j \in 1..Len(frame.cols) : frame.cols[j].name \notin {"Season", "Team"}
    /\ \A j, k \in 1..Len(frame.cols) :
          j # k => frame.cols[j].name # frame.cols[k].name

=============================================================================
